---- MODULE Spec2Model ----
(***************************************************************************)
(* Quota-aware backend arbitration of voice-talk-app.                      *)
(*                                                                         *)
(* The persisted api_quota_tracker table, the QuotaManager that checks and *)
(* tracks daily usage on it (src/ai/quota_manager.py), the second quota    *)
(* gate inside HuggingFaceClient (src/ai/conversation/huggingface_client)  *)
(* and the /conversation/chat handler that drives both                     *)
(* (src/api/routes/conversation.py).                                       *)
(*                                                                         *)
(* Time is counted in ticks, TicksPerDay of them to a calendar day; the    *)
(* database clock (server_default now()) and datetime.now() are taken to   *)
(* agree.  A store call that raises (query or commit) is the input         *)
(* dbOk = FALSE of the operation that makes it: whichever statement        *)
(* raises, the session is closed without a commit and the except branch    *)
(* returns, so one flag per call covers every failure point.               *)
(***************************************************************************)
EXTENDS Integers, Sequences, FiniteSets, TLC

\* ------------------------------------------------------------------ bounds
\* Daily limit of the cloud generation service (1000 in the source, scaled).
HF_DAILY_LIMIT == 2
\* Ticks in one calendar day (24 hours).
TicksPerDay == 2
\* Last tick of the clock.
MaxTime == 3
\* Cap on a counter's daily_calls (guards of the tracking actions).
MaxCalls == 3
\* Largest units argument of track_usage.
MaxUnits == 2
\* Chat requests in flight at once (processes sharing the store).
\* PyAudio instances a behaviour creates, frames the capture queue is
\* followed up to, device indexes.
MaxHosts == 2
MaxFrames == 2
NumDevices == 1

NumWorkers == 2
\* Requests each worker serves.
MaxRequests == 2

\* ------------------------------------------------------- program constants
AZURE_TTS_LIMIT == 5000000
UNLIMITED_LIMIT == 999999
UNTRACKED_REMAINING == 999999
Inf == -1

HUGGINGFACE == "huggingface"
OLLAMA == "ollama"
FALLBACK == "fallback"

AIBackend == {HUGGINGFACE, OLLAMA, FALLBACK}

VOSK == "vosk"
SHERPA_ONNX == "sherpa-onnx"
STTBackend == {VOSK, SHERPA_ONNX, HUGGINGFACE}

PYTTSX3 == "pyttsx3"
AZURE == "azure"
ESPEAK == "espeak"
TTSBackend == {PYTTSX3, AZURE, ESPEAK}

DEFAULT_QUOTAS ==
    [s \in {"huggingface", "azure_tts", "vosk", "ollama"} |->
        CASE s = "huggingface" -> HF_DAILY_LIMIT
          [] s = "azure_tts"   -> AZURE_TTS_LIMIT
          [] s = "vosk"        -> Inf
          [] s = "ollama"      -> Inf]

\* Service names that may key a row of api_quota_tracker: the configured ones
\* and one that has no configured default ("azure").
ServiceNames == DOMAIN DEFAULT_QUOTAS \cup {"azure"}

\* Service names the public operations are called with.
CalledServices == {"huggingface", "ollama", "azure"}

\* --------------------------------------------------------------- the store
\* No row for the service (query(...).first() returns None).
NoRow ==
    [present |-> FALSE, daily_calls |-> 0, daily_limit |-> 0,
     last_reset_date |-> 0, is_quota_exceeded |-> FALSE]

\* A row as APIQuotaTracker(service_name, daily_calls=0, daily_limit=limit)
\* inserts it: last_reset_date = now() by server default, flag False.
APIQuotaTracker(limit, t) ==
    [present |-> TRUE, daily_calls |-> 0, daily_limit |-> limit,
     last_reset_date |-> t, is_quota_exceeded |-> FALSE]

Max(a, b) == IF a >= b THEN a ELSE b

\* timedelta.days of a span of d ticks.
Days(d) == d \div TicksPerDay

\* The calendar date a tick falls on.
DateOf(t) == t \div TicksPerDay

DefaultLimit(s) ==
    IF DEFAULT_QUOTAS[s] # Inf THEN DEFAULT_QUOTAS[s] ELSE UNLIMITED_LIMIT

\* QuotaManager._initialize_quota_trackers: one commit for all the rows added.
InitializeQuotaTrackers(st, t, dbOk) ==
    IF ~dbOk THEN st
    ELSE [s \in DOMAIN st |->
            IF s \in DOMAIN DEFAULT_QUOTAS /\ ~st[s].present
            THEN APIQuotaTracker(DefaultLimit(s), t)
            ELSE st[s]]

\* "Reset if new day" of check_quota.
NewDayMutant(row, t) == t > row.last_reset_date
NewDay(row, t) == Days(t - row.last_reset_date) >= 1

\* The row after the reset branch of check_quota.
ResetRow(row, t) == [row EXCEPT !.daily_calls = 0, !.last_reset_date = t]

QuotaOkMutant(row) == row.daily_calls <= row.daily_limit
QuotaOk(row) == row.daily_calls < row.daily_limit

CallsRemainingMutant(row) == row.daily_limit - row.daily_calls
CallsRemaining(row) == Max(0, row.daily_limit - row.daily_calls)

\* QuotaManager.check_quota: the store after the call, the returned pair and
\* whether the reset branch was committed.
CheckQuotaMutant(st, s, t, dbOk) ==
    IF ~dbOk \/ ~st[s].present
    THEN [store |-> st, ok |-> dbOk, remaining |-> IF dbOk THEN UNTRACKED_REMAINING ELSE 0,
          reset |-> FALSE]
    ELSE LET tracker == IF NewDay(st[s], t) THEN ResetRow(st[s], t) ELSE st[s]
         IN  [store |-> [st EXCEPT ![s] = tracker],
              ok |-> QuotaOk(tracker),
              remaining |-> CallsRemaining(tracker),
              reset |-> NewDay(st[s], t)]
CheckQuota(st, s, t, dbOk) ==
    IF ~dbOk
    THEN [store |-> st, ok |-> TRUE, remaining |-> UNTRACKED_REMAINING,
          reset |-> FALSE]
    ELSE IF ~st[s].present
    THEN [store |-> st, ok |-> TRUE, remaining |-> UNTRACKED_REMAINING,
          reset |-> FALSE]
    ELSE LET tracker == IF NewDay(st[s], t) THEN ResetRow(st[s], t) ELSE st[s]
         IN  [store |-> [st EXCEPT ![s] = tracker],
              ok |-> QuotaOk(tracker),
              remaining |-> CallsRemaining(tracker),
              reset |-> NewDay(st[s], t)]

\* The row after "daily_calls += units" and the recomputed flag.
TrackedRowMutant(row, units) ==
    [row EXCEPT !.daily_calls = @ + 1,
                !.is_quota_exceeded = (row.daily_calls + 1 >= row.daily_limit)]
TrackedRow(row, units) ==
    [row EXCEPT !.daily_calls = @ + units,
                !.is_quota_exceeded = (row.daily_calls + units >= row.daily_limit)]

\* QuotaManager.track_usage.
TrackUsage(st, s, units, dbOk) ==
    IF dbOk /\ st[s].present
    THEN [st EXCEPT ![s] = TrackedRow(st[s], units)]
    ELSE st

\* QuotaManager.get_best_ai_backend, on the pair check_quota returned.
GetBestAiBackendMutant(hf_ok, hf_remaining) ==
    IF hf_ok /\ hf_remaining > 1 THEN HUGGINGFACE ELSE OLLAMA
GetBestAiBackend(hf_ok, hf_remaining) ==
    IF hf_ok /\ hf_remaining > 0 THEN HUGGINGFACE ELSE OLLAMA

\* QuotaManager.get_best_stt_backend, on its argument and on what
\* check_quota("huggingface") returns (consulted only when online is required).
GetBestSttBackendMutant(require_online, hf_ok) ==
    IF require_online THEN HUGGINGFACE ELSE VOSK
GetBestSttBackend(require_online, hf_ok) ==
    IF ~require_online THEN VOSK
    ELSE IF hf_ok THEN HUGGINGFACE ELSE VOSK

\* QuotaManager.get_best_tts_backend.
GetBestTtsBackendMutant == AZURE
GetBestTtsBackend == PYTTSX3

\* The service types should_switch_backend is called with; "other" is any
\* string that is none of the three it knows.
ServiceTypes == {"ai", "stt", "tts", "other"}

\* QuotaManager.should_switch_backend(service_type) on the store st at time
\* t: get_best_*_backend() runs first and records its choice in
\* current_backends, then the choice is compared with what current_backends
\* holds.  current is current_backends[service_type] as the call leaves it
\* ("none": no entry is written).
ShouldSwitchBackend(st, service_type, t, dbOk) ==
    LET chk == IF service_type = "ai" THEN CheckQuota(st, HUGGINGFACE, t, dbOk)
               ELSE [store |-> st, ok |-> FALSE, remaining |-> 0, reset |-> FALSE]
        best == CASE service_type = "ai" -> GetBestAiBackend(chk.ok, chk.remaining)
                  [] service_type = "stt" -> GetBestSttBackend(FALSE, chk.ok)
                  [] service_type = "tts" -> GetBestTtsBackend
                  [] OTHER -> "none"
        current == best
    IN  [store |-> chk.store, reset |-> chk.reset, best |-> best, current |-> current,
         switch |-> IF service_type \in {"ai", "stt", "tts"} THEN best # current
                    ELSE FALSE]

\* ------------------------------------------------------ HuggingFaceClient
\* HuggingFaceClient._check_quota: creates the row when absent (committed);
\* its reset branch changes the loaded object only, no commit follows and
\* session.close() discards it.  Returns the store and the gate's answer.
HFCheckQuota(st, s, t, dbOk) ==
    IF ~dbOk THEN [store |-> st, ok |-> TRUE]
    ELSE LET st1 == IF st[s].present THEN st
                    ELSE [st EXCEPT ![s] = APIQuotaTracker(HF_DAILY_LIMIT, t)]
             tracker == IF Days(t - st1[s].last_reset_date) > 0
                        THEN ResetRow(st1[s], t) ELSE st1[s]
         IN  [store |-> st1, ok |-> QuotaOk(tracker)]

\* HuggingFaceClient._track_quota.
HFTrackQuota(st, s, dbOk) ==
    IF dbOk /\ st[s].present
    THEN [st EXCEPT ![s] = TrackedRow(st[s], 1)]
    ELSE st

\* What requests.post and the parsing of its response come to:
\*   "text"         200, generated_text with a non-empty reply
\*   "empty"        200, generated_text whose reply strips to ""
\*   "bad_format"   200, no generated_text in the body
\*   "rate_limited" 429
\*   "http_error"   any other status
\*   "exception"    requests.post or response.json() raises (timeout included)
Outcomes == {"text", "empty", "bad_format", "rate_limited", "http_error", "exception"}

\* The branch of chat() that reaches _track_quota and returns success.
GeneratedTextFound(outcome) == outcome \in {"text", "empty"}

\* chat() with the usage tracked as soon as a response arrives.
HFChatMutant(st, is_initialized, t, outcome, dbGate, dbTrack) ==
    IF ~is_initialized
    THEN [store |-> st, text |-> FALSE, success |-> FALSE,
          posted |-> FALSE, tracked |-> FALSE, gated |-> FALSE]
    ELSE LET gate == HFCheckQuota(st, HUGGINGFACE, t, dbGate)
         IN  IF ~gate.ok
             THEN [store |-> gate.store, text |-> FALSE, success |-> FALSE,
                   posted |-> FALSE, tracked |-> FALSE, gated |-> TRUE]
             ELSE [store |-> IF outcome = "exception" THEN gate.store
                             ELSE HFTrackQuota(gate.store, HUGGINGFACE, dbTrack),
                   text |-> (outcome = "text"),
                   success |-> GeneratedTextFound(outcome),
                   posted |-> TRUE, tracked |-> (outcome # "exception"),
                   gated |-> TRUE]

\* HuggingFaceClient.chat: the store after it, (response_text # "", success),
\* whether the HTTP call was made and whether _track_quota ran.
HFChat(st, is_initialized, t, outcome, dbGate, dbTrack) ==
    IF ~is_initialized
    THEN [store |-> st, text |-> FALSE, success |-> FALSE,
          posted |-> FALSE, tracked |-> FALSE, gated |-> FALSE]
    ELSE LET gate == HFCheckQuota(st, HUGGINGFACE, t, dbGate)
         IN  IF ~gate.ok
             THEN [store |-> gate.store, text |-> FALSE, success |-> FALSE,
                   posted |-> FALSE, tracked |-> FALSE, gated |-> TRUE]
             ELSE IF GeneratedTextFound(outcome)
             THEN [store |-> HFTrackQuota(gate.store, HUGGINGFACE, dbTrack),
                   text |-> (outcome = "text"), success |-> TRUE,
                   posted |-> TRUE, tracked |-> TRUE, gated |-> TRUE]
             ELSE [store |-> gate.store, text |-> FALSE, success |-> FALSE,
                   posted |-> TRUE, tracked |-> FALSE, gated |-> TRUE]

\* ------------------------------------------------- /conversation/chat
\* The chat handler from validation to the ChatResponse, on the store st:
\* get_quota_manager() (constructing the manager on first use),
\* get_best_ai_backend(), hf_client.chat() and the route's own track_usage.
ChatRoute(st, qm, is_initialized, t, msgOk, outcome, dbInit, dbCheck, dbGate, dbHF, dbQM) ==
    IF ~msgOk
    THEN [store |-> st, status |-> 400, best |-> "none", backend_used |-> "none",
          attempted |-> {}, success |-> FALSE, text |-> FALSE, reset |-> FALSE,
          posted |-> FALSE, hfTracked |-> FALSE, qmTracked |-> FALSE,
          ok |-> FALSE, remaining |-> 0, mid |-> st, afterHF |-> st]
    ELSE LET st0  == IF qm THEN st ELSE InitializeQuotaTrackers(st, t, dbInit)
             chk  == CheckQuota(st0, HUGGINGFACE, t, dbCheck)
             best == GetBestAiBackend(chk.ok, chk.remaining)
             hf   == HFChat(chk.store, is_initialized, t, outcome, dbGate, dbHF)
             served == hf.success /\ hf.text
         IN  [store |-> IF served THEN TrackUsage(hf.store, HUGGINGFACE, 1, dbQM)
                        ELSE hf.store,
              status |-> 200,
              best |-> best,
              backend_used |-> IF served THEN best ELSE FALLBACK,
              attempted |-> {HUGGINGFACE},
              success |-> hf.success, text |-> hf.text, reset |-> chk.reset,
              posted |-> hf.posted, hfTracked |-> hf.tracked, qmTracked |-> served,
              ok |-> chk.ok, remaining |-> chk.remaining,
              mid |-> chk.store, afterHF |-> hf.store]

\* ------------------------------------------------------------------- state
VARIABLES
    store,          \* api_quota_tracker: service name -> row or NoRow
    now,            \* the clock
    quota_manager,  \* _quota_manager is not None
    current_ai,     \* QuotaManager.current_backends["ai"]
    is_initialized, \* HuggingFaceClient.is_initialized (an API key is set)
    last,           \* the call that has just completed: its arguments, the
                    \* row it found and what it returned (NoCall once time
                    \* has moved on)
    unitTracks,     \* per service: track calls since the counter was last at
                    \* zero (created or reset), and whether each of them was a
                    \* recorded track of one unit
    workers,        \* concurrent chat requests: per worker, where its request
                    \* stands and what it has read
    current_stt,    \* QuotaManager.current_backends["stt"]
    current_tts,    \* QuotaManager.current_backends["tts"]
    dev,            \* the AudioCapture / AudioPlayback object: its fields,
                    \* the capture queue, and which of the two classes it is
    pa,             \* the audio library: every PyAudio instance created so
                    \* far with the stream opened on it
    alast,          \* the audio call that has just completed
    producer,       \* what the device callback did since stop() last returned
    fifo,           \* the frames put on the capture queue and the frames
                    \* read_frames_buffered returned, each in order
    tts,            \* the shared Pyttsx3Engine: its properties
    vlast,          \* the speak request that has just completed
    engines,        \* _vosk_instance and _pyttsx3_instance: "none" (not
                    \* constructed), "uninitialized" or "ready"
    elast,          \* the engine call that has just completed
    proc            \* the AudioProcessor call under study: its arguments
                    \* and, once it has run, what it returned

selVars == <<current_stt, current_tts>>
audioVars == <<dev, pa, alast, producer, fifo>>
voiceVars == <<tts, vlast>>
engineVars == <<engines, elast>>
procVars == <<proc>>

vars == <<store, now, quota_manager, current_ai, is_initialized, last, unitTracks,
          workers, selVars, audioVars, voiceVars, engineVars, procVars>>

Workers == 1..NumWorkers

Idle == [pc |-> "idle", best |-> "none", read |-> NoRow, text |-> FALSE, served |-> 0]

NoCall ==
    [op |-> "none", svc |-> "none", units |-> 0, dbOk |-> TRUE,
     pre |-> NoRow, ok |-> FALSE, remaining |-> 0, reset |-> FALSE,
     best |-> "none", backend_used |-> "none", attempted |-> {},
     success |-> FALSE, text |-> FALSE, posted |-> FALSE, status |-> 0,
     allOk |-> TRUE, online |-> FALSE,
     service_type |-> "none", was_current |-> "none", switch |-> FALSE]

Fresh == [count |-> 0, unitOnly |-> TRUE]

\* unitTracks after rows were created between two stores.
GCreated(g, before, after) ==
    [s \in DOMAIN g |->
        IF ~before[s].present /\ after[s].present THEN Fresh ELSE g[s]]

\* unitTracks after a check that committed a reset or not.
GReset(g, s, reset) == IF reset THEN [g EXCEPT ![s] = Fresh] ELSE g

\* unitTracks after a track call of units on the store st.
GTracked(g, st, s, units, dbOk, called) ==
    IF ~called \/ ~st[s].present THEN g
    ELSE [g EXCEPT ![s] = IF @.unitOnly /\ units = 1 /\ dbOk
                          THEN [count |-> @.count + 1, unitOnly |-> TRUE]
                          ELSE [count |-> 0, unitOnly |-> FALSE]]

\* ------------------------------------------------------ the audio library
\* A PyAudio instance with the one stream the services open on it.  stream is
\* "none" (nothing opened), "stopped", "running" or "closed"; callback says
\* the stream was opened with a stream_callback; stops, closes and terminates
\* count the stop_stream(), close() and terminate() calls made on the handle
\* as none, one, or more than one.
\* The library is not part of the repository: stop_stream() on a stream that
\* is not running and close() / terminate() on a handle already released
\* return without an error, and terminate() closes the streams still open on
\* the instance.
Counted(n) == IF n = "none" THEN "one" ELSE "more"

PyAudio ==
    [terminated |-> FALSE, terminates |-> "none", stream |-> "none", callback |-> FALSE,
     stops |-> "none", closes |-> "none"]

StreamOpen(h) == h.stream \in {"stopped", "running"}

\* audio.open(..., stream_callback, start).
Open(h, callback, start) ==
    [h EXCEPT !.stream = IF start THEN "running" ELSE "stopped", !.callback = callback]

\* stream.start_stream().
StartStream(h) == [h EXCEPT !.stream = "running"]

\* stream.stop_stream().
StopStream(h) ==
    [h EXCEPT !.stops = Counted(@), !.stream = IF @ = "running" THEN "stopped" ELSE @]

\* stream.close().
Close(h) ==
    [h EXCEPT !.closes = Counted(@), !.stream = IF StreamOpen(h) THEN "closed" ELSE @]

\* audio.terminate().
Terminate(h) ==
    [h EXCEPT !.terminates = Counted(@), !.terminated = TRUE,
              !.stream = IF StreamOpen(h) THEN "closed" ELSE @]

\* The handle still holds the device: the host is not terminated or its
\* stream is open.
Held(h) == ~h.terminated \/ StreamOpen(h)

\* ------------------------------------------- AudioCapture, AudioPlayback
\* The points of start() where the library can raise.
StartFailures(kind) ==
    IF kind = "capture" THEN {"none", "host", "open", "start_stream"}
    ELSE {"none", "host", "open"}

\* The except branch of start(): terminate self.audio if set, return False.
StartFailed(d, hosts) ==
    [dev |-> d,
     pa |-> IF d.audio # 0 THEN [hosts EXCEPT ![d.audio] = Terminate(@)] ELSE hosts,
     result |-> "false"]

\* start() on the object d with the library holding hosts, the library
\* raising at the point fail.  The capture stream is opened stopped, with the
\* callback only if on_frame_callback is set, and started afterwards; the
\* playback stream is opened running.
StartMutant(d, hosts, fail) ==
    IF fail = "none"
    THEN [dev |-> [d EXCEPT !.audio = Len(hosts) + 1, !.stream = Len(hosts) + 1,
                            !.active = TRUE],
          pa |-> Append(hosts, Open(PyAudio, d.on_frame_callback, TRUE)),
          result |-> "true"]
    ELSE [dev |-> d, pa |-> hosts, result |-> "raised"]
Start(d, hosts, fail) ==
    LET h == Len(hosts) + 1
        d1 == [d EXCEPT !.audio = h]
        d2 == [d1 EXCEPT !.stream = h, !.active = TRUE]
        opened == Open(PyAudio, d.kind = "capture" /\ d.on_frame_callback,
                       d.kind = "playback")
    IN  CASE fail = "host" -> StartFailed(d, hosts)
          [] fail = "open" -> StartFailed(d1, Append(hosts, PyAudio))
          [] fail = "start_stream" -> StartFailed(d2, Append(hosts, opened))
          [] OTHER ->
                [dev |-> d2,
                 pa |-> Append(hosts, IF d.kind = "capture" THEN StartStream(opened)
                                      ELSE opened),
                 result |-> "true"]

\* stop(): the flag is cleared, the stream self.stream refers to is stopped
\* and closed and the host self.audio refers to is terminated; the two
\* fields keep referring to them.
Stop(d, hosts) ==
    LET p1 == IF d.stream # 0 THEN [hosts EXCEPT ![d.stream] = Close(StopStream(@))]
              ELSE hosts
        p2 == IF d.audio # 0 THEN [p1 EXCEPT ![d.audio] = Terminate(@)] ELSE p1
    IN  [dev |-> [d EXCEPT !.active = FALSE], pa |-> p2, result |-> "none"]

\* set_device_index(device_index): stop() if active, then start().
SetDeviceIndex(d, hosts, device_index, fail) ==
    LET d0 == [d EXCEPT !.device_index = device_index]
        s == IF d.active THEN Stop(d0, hosts) ELSE [dev |-> d0, pa |-> hosts]
        r == Start(s.dev, s.pa, fail)
    IN  [dev |-> r.dev, pa |-> r.pa, result |-> "none"]

\* stream.read / stream.write on the stream self.stream refers to: it raises
\* on a stream that is not running.
StreamUsable(d, hosts) == d.stream # 0 /\ hosts[d.stream].stream = "running"

\* read_frame(): None unless recording with a stream; an exception of
\* stream.read is caught and gives None.  Reading a stream opened with a
\* callback is refused or served by the library.
ReadFrameMutant(d, hosts, served) ==
    IF ~d.active \/ d.stream = 0 THEN "none"
    ELSE IF ~StreamUsable(d, hosts) THEN "raised"
    ELSE "frame"
ReadFrame(d, hosts, served) ==
    IF ~d.active \/ d.stream = 0 THEN "none"
    ELSE IF ~StreamUsable(d, hosts) THEN "none"
    ELSE IF hosts[d.stream].callback /\ ~served THEN "none"
    ELSE "frame"

\* play_audio(): False unless playing with a stream; an exception of
\* stream.write is caught and gives False.
PlayAudio(d, hosts) ==
    IF ~d.active \/ d.stream = 0 THEN "false"
    ELSE IF ~StreamUsable(d, hosts) THEN "false"
    ELSE "true"

\* AudioCapture.__init__ / AudioPlayback.__init__: no host, no stream, not
\* active, an empty queue, no frame callback, the device index of the settings
\* (None, written 0).  audio and stream are 0 for None and otherwise the
\* position in pa of the PyAudio instance the field refers to.
NewDevice(kind) ==
    [kind |-> kind, audio |-> 0, stream |-> 0, active |-> FALSE,
     device_index |-> 0, on_frame_callback |-> FALSE, audio_queue |-> <<>>]

\* queue.Queue.get on a queue that holds a frame: the frame that was put
\* first, and the queue without it.
QueueGetMutant(q) == [frame |-> q[Len(q)], rest |-> SubSeq(q, 1, Len(q) - 1)]
QueueGet(q) == [frame |-> Head(q), rest |-> Tail(q)]

\* No frame has been put on the queue and none has been returned.
NoFrames == [put |-> <<>>, got |-> <<>>]

\* No audio call has completed.
NoAudioCall ==
    [op |-> "none", result |-> "none", fail |-> "none", was_active |-> FALSE,
     old_audio |-> 0, hosts |-> 0]

\* The producer as stop() has not returned yet.
Producing == [halted |-> FALSE, late |-> 0]

\* ------------------------------------------------- speech synthesis
\* Speeds and volumes are written in hundredths (1.0 is 100).

\* The voices the engine enumerates (available_voices), by position from 0.
VoiceNames == <<"Alice", "Bob">>

\* The voice names requests carry.
RequestedVoices == {"default", "Default", "alice", "BOB", "Carol"}

\* str.lower() on the names above.
Lower(name) ==
    CASE name = "Alice" -> "alice"
      [] name = "Bob" -> "bob"
      [] name = "BOB" -> "bob"
      [] name = "Carol" -> "carol"
      [] name = "Default" -> "default"
      [] OTHER -> name

\* The speeds requests carry, and the volumes set_volume is called with.
RequestedSpeeds == {25, 50, 100, 200, 300}
RequestedVolumes == {-50, 50, 150}

\* The documented ranges: speed 0.5-2.0, volume 0.0-1.0.
MIN_SPEED == 50
MAX_SPEED == 200
MAX_VOLUME == 100

\* The base rate of the route in words per minute.
BASE_RATE == 150

\* Pyttsx3Engine._initialize_engine: rate, volume and voice of the settings.
\* The voice is the position in the enumerated voice list.
PYTTSX3_RATE == 150
PYTTSX3_VOLUME == 90
PYTTSX3_VOICE_INDEX == 0
NewEngine ==
    [voice |-> PYTTSX3_VOICE_INDEX, rate |-> PYTTSX3_RATE, volume |-> PYTTSX3_VOLUME]

\* No speak request has completed.
NoSpeak == [op |-> "none", voice |-> "default", speed |-> 100, status |-> 0,
            spoken_voice |-> 0, matched |-> FALSE, tmp |-> "none"]

\* The first position whose voice name equals the requested name, both
\* lowered; -1 when there is none.
FindVoice(voice) ==
    LET hits == {i \in 1..Len(VoiceNames) : Lower(VoiceNames[i]) = Lower(voice)}
    IN  IF hits = {} THEN -1
        ELSE (CHOOSE i \in hits : \A j \in hits : i <= j) - 1

\* The voice selection of speak_text on the engine e: set_voice(i) on a
\* match; nothing on "default" and on a name that matches no voice.
SelectVoice(e, voice) ==
    IF voice # "default" /\ FindVoice(voice) >= 0
    THEN [e EXCEPT !.voice = FindVoice(voice)]
    ELSE e

\* int(150 * request.speed).
Rate(speed) == (BASE_RATE * speed) \div 100

\* Pyttsx3Engine.set_rate: the rate is handed to the engine as it is.
SetRate(e, rate) == [e EXCEPT !.rate = rate]

\* Pyttsx3Engine.set_volume: max(0.0, min(1.0, volume)).
SetVolume(e, volume) ==
    [e EXCEPT !.volume = IF volume < 0 THEN 0
                         ELSE IF volume > MAX_VOLUME THEN MAX_VOLUME ELSE volume]

\* speak_text on the initialized engine: 400 on an empty or too long text,
\* 500 when speak_to_file fails or a later step raises (the voice and the
\* rate stay as set), 200 otherwise.
SpeakText(e, textOk, voice, speed, synthOk) ==
    LET e1 == SetRate(SelectVoice(e, voice), Rate(speed))
    IN  IF ~textOk THEN [tts |-> e, status |-> 400]
        ELSE [tts |-> e1, status |-> IF synthOk THEN 200 ELSE 500]

\* The points after the temporary file is created where a speak request can
\* fail: speak_to_file returns False, read_audio_file raises, the encoding
\* of the samples raises.
SpeakFailures == {"none", "synth", "read", "encode"}

\* The temporary file of a speak request when the request returns: "none"
\* (the request was refused before NamedTemporaryFile), "removed" (unlink was
\* reached) or "left".  NamedTemporaryFile is called with delete=False.
TmpFile(textOk, fail) ==
    LET created == textOk
        unlinked == created /\ fail = "none"
    IN  IF ~created THEN "none" ELSE IF unlinked THEN "removed" ELSE "left"

\* ------------------------------------------------- the speech engines
\* Texts are sequences of pieces: words and the separators between them;
\* the empty text is <<>>.  Confidences are written in hundredths.

\* The words the recognizer hears, and the longest result followed.
Words == {"hello", "world"}
MaxWords == 2
WordSeqs == UNION {[1..n -> Words] : n \in 0..MaxWords}

\* Python values of the two types that meet in the joins.
Str(s) == [type |-> "str", v |-> s]
Float(n) == [type |-> "float", v |-> n]

\* The "result" list of the recognizer's final JSON for the words ws: one
\* item per word with its word (a string) and its conf (a number).
Items(ws) == [i \in 1..Len(ws) |-> [word |-> Str(ws[i]), conf |-> Float(100)]]

\* " ".join(xs): TypeError unless every element is a string.
JoinRaises(xs) == \E i \in 1..Len(xs) : xs[i].type # "str"
RECURSIVE SpaceJoin(_)
SpaceJoin(xs) ==
    IF xs = <<>> THEN <<>>
    ELSE IF Len(xs) = 1 THEN <<xs[1].v>>
    ELSE <<xs[1].v, " ">> \o SpaceJoin(Tail(xs))

\* confidence = 0.9 if text else 0.0.
FINAL_CONFIDENCE == 90

\* What AcceptWaveform does with the audio: the utterance is complete
\* ("final"), is not ("partial"), or the recognizer raises.
Accepts == {"final", "partial", "raise"}

\* VoskEngine.transcribe_audio.  json is what the recognizer answers: the
\* words heard, and whether the final JSON carries the "result" list besides
\* "text"; the partial JSON has the key "partial" only.
TranscribeAudioMutant(initialized, accept, json) ==
    LET text == IF json.has_result THEN Items(json.words) ELSE <<>>
        confs == [i \in 1..Len(text) |-> text[i].conf]
        absorbed == [text |-> <<>>, confidence |-> 0, raised |-> FALSE]
    IN  IF ~initialized THEN absorbed
        ELSE IF accept = "raise" THEN [absorbed EXCEPT !.raised = TRUE]
        ELSE IF accept = "partial" THEN absorbed
        ELSE IF JoinRaises(confs) THEN [absorbed EXCEPT !.raised = TRUE]
        ELSE [text |-> SpaceJoin(confs),
              confidence |-> IF text # <<>> THEN FINAL_CONFIDENCE ELSE 0,
              raised |-> FALSE]
TranscribeAudio(initialized, accept, json) ==
    LET text == IF json.has_result THEN Items(json.words) ELSE <<>>
        confs == [i \in 1..Len(text) |-> text[i].conf]
        absorbed == [text |-> <<>>, confidence |-> 0, raised |-> FALSE]
    IN  IF ~initialized THEN absorbed
        ELSE IF accept = "raise" THEN absorbed
        ELSE IF accept = "partial" THEN absorbed
        ELSE IF JoinRaises(confs) THEN absorbed
        ELSE [text |-> SpaceJoin(confs),
              confidence |-> IF text # <<>> THEN FINAL_CONFIDENCE ELSE 0,
              raised |-> FALSE]

\* VoskEngine.transcribe_stream: the texts yielded for the frames, each
\* frame with whether it is bytes, what AcceptWaveform does and the final
\* JSON; an exception ends the generator.
RECURSIVE StreamYields(_)
StreamYields(frames) ==
    IF frames = <<>> THEN <<>>
    ELSE LET f == frames[1]
             confs == [i \in 1..Len(f.words) |-> Items(f.words)[i].conf]
         IN  IF ~f.is_bytes THEN StreamYields(Tail(frames))
             ELSE IF f.accept = "raise" THEN <<>>
             ELSE IF ~f.has_result \/ f.words = <<>> THEN StreamYields(Tail(frames))
             ELSE IF JoinRaises(confs) THEN <<>>
             ELSE <<SpaceJoin(confs)>> \o StreamYields(Tail(frames))
TranscribeStream(initialized, frames) ==
    [yields |-> IF initialized THEN StreamYields(frames) ELSE <<>>, raised |-> FALSE]

\* Pyttsx3Engine.speak / speak_to_file: False on an engine that is not
\* initialized and when the engine raises.
EngineSpeak(initialized, sayOk) == initialized /\ sayOk

\* get_vosk_engine / get_pyttsx3_engine: the instance is constructed on the
\* first call only, and construction is where initialization is tried.
GetEngineMutant(state, initOk) ==
    IF state \in {"none", "uninitialized"}
    THEN IF initOk THEN "ready" ELSE "uninitialized"
    ELSE state
GetEngine(state, initOk) ==
    IF state = "none" THEN IF initOk THEN "ready" ELSE "uninitialized"
    ELSE state

\* get_status()["initialized"].
GetStatus(state) == state = "ready"

EngineNames == {"vosk", "pyttsx3"}

\* No engine call has completed.
NoEngineCall ==
    [op |-> "none", engine |-> "none", accept |-> "none", words |-> <<>>,
     has_result |-> FALSE, text |-> <<>>, confidence |-> 0, raised |-> FALSE,
     initialized |-> FALSE, ok |-> FALSE]

\* ------------------------------------------------- the audio processor
\* A frame is the sequence of its int16 samples.  Linear gains are written
\* in hundredths.

INT16_MIN == -32768
INT16_MAX == 32767

\* The samples, frame lengths, sample rates (Hz), chunk durations (ms) and
\* linear gains the functions are applied to.
Samples == {INT16_MIN, -100, 0, 100, INT16_MAX}
MaxSamples == 3
Frames == UNION {[1..n -> Samples] : n \in 0..MaxSamples}
SampleRates == {500, 1000, 1500, 2000}
ChunkDurations == {1, 2}
Gains == {1, 50, 100, 250, 60000}

\* int(sample_rate * chunk_duration_ms / 1000).
ChunkSize(sample_rate, chunk_duration_ms) == (sample_rate * chunk_duration_ms) \div 1000

\* The slices audio_data[i:i + chunk_size] for i in range(0, n, chunk_size),
\* as pairs of the first position and the length, empty slices left out
\* (chunk_size > 0; range raises ValueError on a step of 0).
RECURSIVE Slices(_, _, _)
Slices(i, n, chunk_size) ==
    IF i >= n THEN <<>>
    ELSE LET len == IF n - i < chunk_size THEN n - i ELSE chunk_size
         IN  (IF len > 0 THEN <<[first |-> i + 1, len |-> len]>> ELSE <<>>)
             \o Slices(i + chunk_size, n, chunk_size)

\* AudioProcessor.split_audio_chunks: the chunks, or the ValueError of
\* range(0, len(audio_data), 0).
SplitAudioChunks(audio_data, sample_rate, chunk_duration_ms) ==
    LET chunk_size == ChunkSize(sample_rate, chunk_duration_ms)
        sl == Slices(0, Len(audio_data), chunk_size)
    IN  IF chunk_size = 0 THEN [raised |-> TRUE, chunks |-> <<>>]
        ELSE [raised |-> FALSE,
              chunks |-> [k \in 1..Len(sl) |->
                            SubSeq(audio_data, sl[k].first, sl[k].first + sl[k].len - 1)]]

\* AudioProcessor.concatenate_chunks.
RECURSIVE ConcatenateChunks(_)
ConcatenateChunks(chunks) ==
    IF chunks = <<>> THEN <<>> ELSE chunks[1] \o ConcatenateChunks(Tail(chunks))

\* np.clip(x, -32768, 32767), on a value in hundredths.
ClipMutant(x) == ((x + 3276800) % 6553600) - 3276800
Clip(x) ==
    IF x < INT16_MIN * 100 THEN INT16_MIN * 100
    ELSE IF x > INT16_MAX * 100 THEN INT16_MAX * 100 ELSE x

\* astype(np.int16) of a value in hundredths inside the int16 range: the
\* fraction is cut off towards zero.
AsInt16(x) == IF x >= 0 THEN x \div 100 ELSE -((-x) \div 100)

\* AudioProcessor.apply_gain with the linear gain of gain_db.
ApplyGain(audio_data, gain) ==
    [i \in 1..Len(audio_data) |-> AsInt16(Clip(audio_data[i] * gain))]

\* rms == 0: every sample is 0 (and there is one).
RmsIsZero(audio_data) ==
    audio_data # <<>> /\ \A i \in 1..Len(audio_data) : audio_data[i] = 0

\* AudioProcessor.normalize_audio, gain being the linear gain that target_db
\* and the rms of the frame give.
NormalizeAudio(audio_data, gain) ==
    IF RmsIsZero(audio_data) THEN audio_data ELSE ApplyGain(audio_data, gain)

\* No AudioProcessor call is under study.
NoProc ==
    [op |-> "none", audio_data |-> <<>>, sample_rate |-> 0, chunk_duration_ms |-> 0,
     gain |-> 0, raised |-> FALSE, chunks |-> <<>>, out |-> <<>>]

\* The parts of the program a specification leaves alone, as constructed.
EngineIdle == engines = [e \in EngineNames |-> "none"] /\ elast = NoEngineCall
ProcIdle == proc = NoProc
SelectionInit == current_stt = VOSK /\ current_tts = PYTTSX3
AudioIdle ==
    /\ dev = NewDevice("capture")
    /\ pa = <<>>
    /\ alast = NoAudioCall
    /\ producer = Producing
    /\ fifo = NoFrames
VoiceIdle == tts = NewEngine /\ vlast = NoSpeak

Init ==
    /\ SelectionInit /\ AudioIdle /\ VoiceIdle /\ EngineIdle /\ ProcIdle
    /\ store = [s \in ServiceNames |-> NoRow]
    /\ now = 0
    /\ quota_manager = FALSE
    /\ current_ai = HUGGINGFACE
    /\ is_initialized \in BOOLEAN
    /\ last = NoCall
    /\ unitTracks = [s \in ServiceNames |-> Fresh]
    /\ workers = [w \in Workers |-> Idle]

\* Time passes.
Tick ==
    /\ now < MaxTime
    /\ now' = now + 1
    /\ last' = NoCall
    /\ UNCHANGED <<store, quota_manager, current_ai, is_initialized, unitTracks, workers,
                 selVars, audioVars, voiceVars, engineVars, procVars>>

\* get_quota_manager() for the first time: QuotaManager.__init__.
NewQuotaManager(dbOk) ==
    /\ ~quota_manager
    /\ quota_manager' = TRUE
    /\ store' = InitializeQuotaTrackers(store, now, dbOk)
    /\ current_ai' = HUGGINGFACE
    /\ unitTracks' = GCreated(unitTracks, store, store')
    /\ last' = [NoCall EXCEPT !.op = "init", !.dbOk = dbOk]
    /\ UNCHANGED <<now, is_initialized, workers,
                 selVars, audioVars, voiceVars, engineVars, procVars>>

\* quota_manager.check_quota(s).
CheckQuotaCall(s, dbOk) ==
    LET r == CheckQuota(store, s, now, dbOk)
    IN  /\ quota_manager
        /\ store' = r.store
        /\ unitTracks' = GReset(unitTracks, s, r.reset)
        /\ last' = [NoCall EXCEPT !.op = "check_quota", !.svc = s, !.dbOk = dbOk,
                                  !.pre = store[s], !.ok = r.ok,
                                  !.remaining = r.remaining, !.reset = r.reset]
        /\ UNCHANGED <<now, quota_manager, current_ai, is_initialized, workers,
                 selVars, audioVars, voiceVars, engineVars, procVars>>

\* quota_manager.track_usage(s, units).
TrackUsageCall(s, units, dbOk) ==
    /\ quota_manager
    /\ store[s].daily_calls + units <= MaxCalls
    /\ store' = TrackUsage(store, s, units, dbOk)
    /\ unitTracks' = GTracked(unitTracks, store, s, units, dbOk, TRUE)
    /\ last' = [NoCall EXCEPT !.op = "track_usage", !.svc = s, !.units = units,
                              !.dbOk = dbOk, !.pre = store[s]]
    /\ UNCHANGED <<now, quota_manager, current_ai, is_initialized, workers,
                 selVars, audioVars, voiceVars, engineVars, procVars>>

\* quota_manager.get_best_ai_backend().
GetBestAiBackendCall(dbOk) ==
    LET r == CheckQuota(store, HUGGINGFACE, now, dbOk)
        best == GetBestAiBackend(r.ok, r.remaining)
    IN  /\ quota_manager
        /\ store' = r.store
        /\ current_ai' = best
        /\ unitTracks' = GReset(unitTracks, HUGGINGFACE, r.reset)
        /\ last' = [NoCall EXCEPT !.op = "get_best_ai_backend", !.svc = HUGGINGFACE,
                                  !.dbOk = dbOk, !.pre = store[HUGGINGFACE], !.ok = r.ok,
                                  !.remaining = r.remaining, !.reset = r.reset,
                                  !.best = best]
        /\ UNCHANGED <<now, quota_manager, is_initialized, workers,
                 selVars, audioVars, voiceVars, engineVars, procVars>>

\* quota_manager.get_best_stt_backend(require_online): the counter is looked
\* at (and reset on rollover) only when online recognition is required.
GetBestSttBackendCall(require_online, dbOk) ==
    LET r == IF require_online THEN CheckQuota(store, HUGGINGFACE, now, dbOk)
             ELSE [store |-> store, ok |-> FALSE, remaining |-> 0, reset |-> FALSE]
        best == GetBestSttBackend(require_online, r.ok)
    IN  /\ quota_manager
        /\ store' = r.store
        /\ current_stt' = best
        /\ unitTracks' = GReset(unitTracks, HUGGINGFACE, r.reset)
        /\ last' = [NoCall EXCEPT !.op = "get_best_stt_backend", !.svc = HUGGINGFACE,
                                  !.dbOk = dbOk, !.pre = store[HUGGINGFACE], !.ok = r.ok,
                                  !.remaining = r.remaining, !.reset = r.reset,
                                  !.best = best, !.online = require_online]
        /\ UNCHANGED <<now, quota_manager, current_ai, is_initialized, workers,
                       current_tts, audioVars, voiceVars, engineVars, procVars>>

\* quota_manager.get_best_tts_backend().
GetBestTtsBackendCall ==
    /\ quota_manager
    /\ current_tts' = GetBestTtsBackend
    /\ last' = [NoCall EXCEPT !.op = "get_best_tts_backend", !.best = GetBestTtsBackend]
    /\ UNCHANGED <<store, now, quota_manager, current_ai, is_initialized, unitTracks,
                   workers, current_stt, audioVars, voiceVars, engineVars, procVars>>

\* The store calls of one chat request, in order; a request has at most one
\* of them raise ("none": all succeed).
StoreCalls == {"none", "init", "check", "gate", "hf_track", "qm_track"}

\* POST /conversation/chat, start to end (the handler never awaits, so one
\* process runs it without interleaving another request).
Chat(msgOk, outcome, failAt) ==
    LET r == ChatRoute(store, quota_manager, is_initialized, now, msgOk, outcome,
                       failAt # "init", failAt # "check", failAt # "gate",
                       failAt # "hf_track", failAt # "qm_track")
        st0 == IF quota_manager \/ ~msgOk THEN store
               ELSE InitializeQuotaTrackers(store, now, failAt # "init")
        g0 == GCreated(unitTracks, store, st0)
        g1 == GReset(g0, HUGGINGFACE, r.reset)
        g2 == GCreated(g1, r.mid, r.afterHF)
        g3 == GTracked(g2, r.afterHF, HUGGINGFACE, 1, failAt # "hf_track", r.hfTracked)
        g4 == GTracked(g3, r.afterHF, HUGGINGFACE, 1, failAt # "qm_track", r.qmTracked)
    IN  /\ r.store[HUGGINGFACE].daily_calls <= MaxCalls
        /\ store' = r.store
        /\ quota_manager' = (quota_manager \/ msgOk)
        /\ current_ai' = IF msgOk THEN r.best ELSE current_ai
        /\ unitTracks' = g4
        /\ last' = [NoCall EXCEPT !.op = "chat", !.svc = HUGGINGFACE,
                                  !.dbOk = (failAt # "check"),
                                  !.pre = store[HUGGINGFACE], !.ok = r.ok,
                                  !.remaining = r.remaining, !.reset = r.reset,
                                  !.best = r.best, !.backend_used = r.backend_used,
                                  !.attempted = r.attempted, !.success = r.success,
                                  !.text = r.text, !.posted = r.posted,
                                  !.status = r.status,
                                  !.allOk = (failAt = "none")]
        /\ UNCHANGED <<now, is_initialized, workers,
                 selVars, audioVars, voiceVars, engineVars, procVars>>

\* The QuotaManager's public operations, called in any order.
Next ==
    \/ Tick
    \/ \E dbOk \in BOOLEAN : NewQuotaManager(dbOk)
    \/ \E s \in CalledServices, dbOk \in BOOLEAN : CheckQuotaCall(s, dbOk)
    \/ \E s \in CalledServices, units \in 1..MaxUnits, dbOk \in BOOLEAN :
          TrackUsageCall(s, units, dbOk)
    \/ \E dbOk \in BOOLEAN : GetBestAiBackendCall(dbOk)

Spec == Init /\ [][Next]_vars

\* The selection of the speech backends, among the calls that change what
\* the counters hold.
NextSelect ==
    \/ Tick
    \/ \E dbOk \in BOOLEAN : NewQuotaManager(dbOk)
    \/ \E s \in CalledServices, units \in 1..MaxUnits, dbOk \in BOOLEAN :
          TrackUsageCall(s, units, dbOk)
    \/ \E require_online \in BOOLEAN, dbOk \in BOOLEAN :
          GetBestSttBackendCall(require_online, dbOk)
    \/ GetBestTtsBackendCall

SpecSelect == Init /\ [][NextSelect]_vars

\* The services DEFAULT_QUOTAS gives float("inf"): their rows are created
\* with the limit 999999.
UnlimitedServices == {s \in DOMAIN DEFAULT_QUOTAS : DEFAULT_QUOTAS[s] = Inf}

\* The units a track call on such a service is followed with: a third of
\* the limit its row is created with.
BulkUnits == {UNLIMITED_LIMIT \div 3}

\* quota_manager.track_usage(s, units) on a service without a daily limit.
TrackUsageBulk(s, units, dbOk) ==
    /\ quota_manager
    /\ store[s].daily_calls + units <= UNLIMITED_LIMIT
    /\ store' = TrackUsage(store, s, units, dbOk)
    /\ unitTracks' = GTracked(unitTracks, store, s, units, dbOk, TRUE)
    /\ last' = [NoCall EXCEPT !.op = "track_usage", !.svc = s, !.units = units,
                              !.dbOk = dbOk, !.pre = store[s]]
    /\ UNCHANGED <<now, quota_manager, current_ai, is_initialized, workers,
                 selVars, audioVars, voiceVars, engineVars, procVars>>

\* The calls on the counters of the services without a daily limit.
NextUnlimited ==
    \/ Tick
    \/ \E dbOk \in BOOLEAN : NewQuotaManager(dbOk)
    \/ \E s \in UnlimitedServices, dbOk \in BOOLEAN : CheckQuotaCall(s, dbOk)
    \/ \E s \in UnlimitedServices, units \in BulkUnits, dbOk \in BOOLEAN :
          TrackUsageBulk(s, units, dbOk)

SpecUnlimited == Init /\ [][NextUnlimited]_vars

\* quota_manager.should_switch_backend(service_type).
ShouldSwitchBackendCall(service_type, dbOk) ==
    LET r == ShouldSwitchBackend(store, service_type, now, dbOk)
        was == CASE service_type = "ai" -> current_ai
                 [] service_type = "stt" -> current_stt
                 [] service_type = "tts" -> current_tts
                 [] OTHER -> "none"
    IN  /\ quota_manager
        /\ store' = r.store
        /\ current_ai' = IF service_type = "ai" THEN r.current ELSE current_ai
        /\ current_stt' = IF service_type = "stt" THEN r.current ELSE current_stt
        /\ current_tts' = IF service_type = "tts" THEN r.current ELSE current_tts
        /\ unitTracks' = GReset(unitTracks, HUGGINGFACE, r.reset)
        /\ last' = [NoCall EXCEPT !.op = "should_switch_backend", !.svc = HUGGINGFACE,
                                  !.dbOk = dbOk, !.pre = store[HUGGINGFACE],
                                  !.reset = r.reset, !.best = r.best,
                                  !.service_type = service_type,
                                  !.was_current = was, !.switch = r.switch]
        /\ UNCHANGED <<now, quota_manager, is_initialized, workers,
                       audioVars, voiceVars, engineVars, procVars>>

\* Asking whether to switch, among the calls that change what the counters
\* hold and what current_backends records.
NextSwitch ==
    \/ Tick
    \/ \E dbOk \in BOOLEAN : NewQuotaManager(dbOk)
    \/ \E s \in CalledServices, units \in 1..MaxUnits, dbOk \in BOOLEAN :
          TrackUsageCall(s, units, dbOk)
    \/ \E require_online \in BOOLEAN, dbOk \in BOOLEAN :
          GetBestSttBackendCall(require_online, dbOk)
    \/ \E service_type \in ServiceTypes, dbOk \in BOOLEAN :
          ShouldSwitchBackendCall(service_type, dbOk)

SpecSwitch == Init /\ [][NextSwitch]_vars

\* Chat requests served one after the other by one process.
NextChat ==
    \/ Tick
    \/ \E msgOk \in BOOLEAN, outcome \in Outcomes, failAt \in StoreCalls :
          Chat(msgOk, outcome, failAt)

SpecChat == Init /\ [][NextChat]_vars

\* The public operations and chat requests whose cloud call fails, in any
\* order (the store raises in none of the calls of such a request).
NextQuota ==
    \/ Next
    \/ Chat(TRUE, "http_error", "none")

SpecQuota == Init /\ [][NextQuota]_vars

\* ------------------------------------------------- concurrent requests
\* Several processes serve chat requests on one store.  Each store call of a
\* request is its own step: a track is a SELECT of the row and, at commit, an
\* UPDATE that writes the columns computed from the row as it was read.  The
\* clock stands still (no day rollover) and the store raises nothing.

\* The row after the UPDATE a track commits, computed from the row read.
CommitTracked(cur, read, units) ==
    [cur EXCEPT !.daily_calls = TrackedRow(read, units).daily_calls,
                !.is_quota_exceeded = TrackedRow(read, units).is_quota_exceeded]

InitConc ==
    /\ SelectionInit /\ AudioIdle /\ VoiceIdle /\ EngineIdle /\ ProcIdle
    /\ store = InitializeQuotaTrackers([s \in ServiceNames |-> NoRow], 0, TRUE)
    /\ now = 0
    /\ quota_manager = TRUE
    /\ current_ai = HUGGINGFACE
    /\ is_initialized \in BOOLEAN
    /\ last = NoCall
    /\ unitTracks = [s \in ServiceNames |-> Fresh]
    /\ workers = [w \in Workers |-> Idle]

\* quota_manager.get_best_ai_backend() of the request worker w takes up.
WSelect(w) ==
    LET r == CheckQuota(store, HUGGINGFACE, now, TRUE)
        best == GetBestAiBackend(r.ok, r.remaining)
    IN  /\ workers[w].pc = "idle"
        /\ workers[w].served < MaxRequests
        /\ store' = r.store
        /\ current_ai' = best
        /\ workers' = [workers EXCEPT ![w].pc = "gate", ![w].best = best]
        /\ UNCHANGED <<now, quota_manager, is_initialized, last, unitTracks,
                 selVars, audioVars, voiceVars, engineVars, procVars>>

\* hf_client.chat() up to its quota gate.
WGate(w) ==
    LET gate == HFCheckQuota(store, HUGGINGFACE, now, TRUE)
    IN  /\ workers[w].pc = "gate"
        /\ store' = IF is_initialized THEN gate.store ELSE store
        /\ workers' = [workers EXCEPT
                         ![w].pc = IF is_initialized /\ gate.ok THEN "post"
                                   ELSE "respond"]
        /\ UNCHANGED <<now, quota_manager, current_ai, is_initialized, last, unitTracks,
                 selVars, audioVars, voiceVars, engineVars, procVars>>

\* requests.post() and the parsing of its response.
WPost(w, outcome) ==
    /\ workers[w].pc = "post"
    /\ workers' = [workers EXCEPT
                     ![w].pc = IF GeneratedTextFound(outcome) THEN "hf_read"
                               ELSE "respond",
                     ![w].text = (outcome = "text")]
    /\ UNCHANGED <<store, now, quota_manager, current_ai, is_initialized, last, unitTracks,
                 selVars, audioVars, voiceVars, engineVars, procVars>>

\* _track_quota: the query.
WHFTrackRead(w) ==
    /\ workers[w].pc = "hf_read"
    /\ workers' = [workers EXCEPT ![w].pc = "hf_write", ![w].read = store[HUGGINGFACE]]
    /\ UNCHANGED <<store, now, quota_manager, current_ai, is_initialized, last, unitTracks,
                 selVars, audioVars, voiceVars, engineVars, procVars>>

\* _track_quota: the commit; chat() returns (response_text, True).
WHFTrackWrite(w) ==
    /\ workers[w].pc = "hf_write"
    /\ store' = IF workers[w].read.present
                THEN [store EXCEPT ![HUGGINGFACE] = CommitTracked(@, workers[w].read, 1)]
                ELSE store
    /\ workers' = [workers EXCEPT
                     ![w].pc = IF workers[w].text THEN "qm_read" ELSE "respond",
                     ![w].read = NoRow]
    /\ UNCHANGED <<now, quota_manager, current_ai, is_initialized, last, unitTracks,
                 selVars, audioVars, voiceVars, engineVars, procVars>>

\* The route's quota_manager.track_usage("huggingface"): the query.
WQMTrackRead(w) ==
    /\ workers[w].pc = "qm_read"
    /\ workers' = [workers EXCEPT ![w].pc = "qm_write", ![w].read = store[HUGGINGFACE]]
    /\ UNCHANGED <<store, now, quota_manager, current_ai, is_initialized, last, unitTracks,
                 selVars, audioVars, voiceVars, engineVars, procVars>>

\* The route's track_usage: the commit.
WQMTrackWrite(w) ==
    /\ workers[w].pc = "qm_write"
    /\ store' = IF workers[w].read.present
                THEN [store EXCEPT ![HUGGINGFACE] = CommitTracked(@, workers[w].read, 1)]
                ELSE store
    /\ workers' = [workers EXCEPT ![w].pc = "respond", ![w].read = NoRow]
    /\ UNCHANGED <<now, quota_manager, current_ai, is_initialized, last, unitTracks,
                 selVars, audioVars, voiceVars, engineVars, procVars>>

\* The ChatResponse is returned.
WRespond(w) ==
    /\ workers[w].pc = "respond"
    /\ workers' = [workers EXCEPT ![w] = [Idle EXCEPT !.served = workers[w].served + 1]]
    /\ UNCHANGED <<store, now, quota_manager, current_ai, is_initialized, last, unitTracks,
                 selVars, audioVars, voiceVars, engineVars, procVars>>

NextConc ==
    \E w \in Workers :
        \/ WSelect(w)
        \/ WGate(w)
        \/ \E outcome \in Outcomes : WPost(w, outcome)
        \/ WHFTrackRead(w)
        \/ WHFTrackWrite(w)
        \/ WQMTrackRead(w)
        \/ WQMTrackWrite(w)
        \/ WRespond(w)

SpecConc == InitConc /\ [][NextConc]_vars

\* ------------------------------------------------------------------ claims
HF == store[HUGGINGFACE]

\* C1: in every reachable state, every counter's is_quota_exceeded equals
\* (daily_calls >= daily_limit): after creation, after every track and after
\* a day-rollover reset performed by check.
C1_ExceededFlagInvariant ==
    \A s \in ServiceNames :
        store[s].present =>
            (store[s].is_quota_exceeded = (store[s].daily_calls >= store[s].daily_limit))

\* C2: a check that runs on a calendar date later than the date of the
\* counter's last_reset_date leaves the counter with daily_calls = 0, also
\* when less than 24 hours have passed since the last reset.
C2_CalendarDayReset ==
    (/\ last.op = "check_quota"
     /\ last.dbOk
     /\ last.pre.present
     /\ DateOf(now) > DateOf(last.pre.last_reset_date))
        => store[last.svc].daily_calls = 0

\* C3: a chat request whose cloud call succeeds raises the huggingface
\* counter's daily_calls by exactly 1 (no store call raising, no rollover in
\* the request).
C3_TrackedOncePerSuccess ==
    (/\ last.op = "chat"
     /\ last.success
     /\ last.allOk
     /\ ~last.reset)
        => HF.daily_calls = last.pre.daily_calls + 1

\* C4: with NumWorkers requests running concurrently and no day rollover,
\* daily_calls never exceeds daily_limit + (NumWorkers - 1).
C4_SoftLimitBound ==
    HF.present => HF.daily_calls <= HF.daily_limit + (NumWorkers - 1)

\* C5: a chat request answers with the canned response (backend_used =
\* "fallback") only after both the cloud variant and the local-model variant
\* were tried.
C5_FallbackOrder ==
    (last.op = "chat" /\ last.backend_used = FALLBACK)
        => {HUGGINGFACE, OLLAMA} \subseteq last.attempted

\* C6: get_best_ai_backend returns the cloud variant exactly when its
\* check_quota("huggingface") reported the quota available, the local-model
\* variant otherwise, and never the canned FALLBACK variant; the returned
\* variant is the one recorded as current.
C6_SelectGeneration ==
    /\ current_ai \in {HUGGINGFACE, OLLAMA}
    /\ last.op = "get_best_ai_backend" =>
          /\ (last.best = HUGGINGFACE) <=> last.ok
          /\ (last.best = OLLAMA) <=> ~last.ok
          /\ current_ai = last.best

C6_Witness ==
    /\ last.op = "get_best_ai_backend"
    /\ last.pre.present
    /\ last.pre.daily_calls >= last.pre.daily_limit
    /\ ~last.reset
    /\ last.best = OLLAMA

\* C7: for a counter of limit L taken from zero usage by tracks of one unit
\* with no rollover in between, a check (whose store call does not raise)
\* returns (false, 0) after exactly L tracks and available = true after
\* fewer than L.
C7_ExhaustedAfterLimitTracks ==
    \A s \in ServiceNames :
        (/\ last.op = "check_quota"
         /\ last.svc = s
         /\ last.dbOk
         /\ store[s].present
         /\ unitTracks[s].unitOnly)
            => /\ unitTracks[s].count = store[s].daily_limit
                    => (~last.ok /\ last.remaining = 0)
               /\ unitTracks[s].count < store[s].daily_limit => last.ok

C7_Witness ==
    /\ last.op = "check_quota"
    /\ last.svc = HUGGINGFACE
    /\ last.dbOk
    /\ HF.present
    /\ unitTracks[HUGGINGFACE].unitOnly
    /\ unitTracks[HUGGINGFACE].count = HF_DAILY_LIMIT
    /\ ~last.ok
    /\ last.remaining = 0

\* C8: a check of a service with default limit L and no usage tracked yet
\* returns (true, L), also when the service's counter did not exist before
\* the call.
C8_FreshCheck ==
    \A s \in DOMAIN DEFAULT_QUOTAS :
        (/\ last.op = "check_quota"
         /\ last.svc = s
         /\ last.dbOk
         /\ (~last.pre.present \/ last.pre.daily_calls = 0))
            => (last.ok /\ last.remaining = DefaultLimit(s))

\* C9: a check of a service that has no counter leaves a counter for it in
\* the store, with daily_calls = 0 and the service's default limit (the
\* unlimited sentinel when none is configured).
C9_LazyCreation ==
    (/\ last.op = "check_quota"
     /\ last.dbOk
     /\ ~last.pre.present)
        => /\ store[last.svc].present
           /\ store[last.svc].daily_calls = 0
           /\ store[last.svc].daily_limit =
                 IF last.svc \in DOMAIN DEFAULT_QUOTAS THEN DefaultLimit(last.svc)
                 ELSE UNLIMITED_LIMIT

\* C10 as stated: after a chat request whose cloud call did not succeed,
\* the huggingface counter's daily_calls is what it was before the request.
C10_FailedLeavesCallsSame ==
    (last.op = "chat" /\ ~last.success)
        => HF.daily_calls = last.pre.daily_calls

\* C10: a chat request whose cloud call did not succeed (client
\* uninitialized, gate closed, non-200, unexpected format, exception) tracks
\* nothing: the huggingface counter's daily_calls is what it was before the
\* request, or 0 when the request's own check_quota committed a day-rollover
\* reset.
C10_FailedNotTracked ==
    (last.op = "chat" /\ ~last.success)
        => HF.daily_calls = IF last.reset THEN 0 ELSE last.pre.daily_calls

C10_Witness ==
    /\ last.op = "chat"
    /\ ~last.success
    /\ last.posted
    /\ ~last.reset
    /\ last.pre.daily_calls > 0
    /\ HF.daily_calls = last.pre.daily_calls

\* ------------------------------------------------- capture and playback
\* One AudioCapture or AudioPlayback object and its callers; the device
\* callback runs in the library's own thread.

QuotaIdle ==
    /\ store = [s \in ServiceNames |-> NoRow]
    /\ now = 0
    /\ quota_manager = FALSE
    /\ current_ai = HUGGINGFACE
    /\ is_initialized = FALSE
    /\ last = NoCall
    /\ unitTracks = [s \in ServiceNames |-> Fresh]
    /\ workers = [w \in Workers |-> Idle]

quotaVars == <<store, now, quota_manager, current_ai, is_initialized, last, unitTracks,
               workers>>

InitAudio ==
    /\ QuotaIdle /\ SelectionInit /\ VoiceIdle /\ EngineIdle /\ ProcIdle
    /\ dev \in {NewDevice(kind) : kind \in {"capture", "playback"}}
    /\ pa = <<>>
    /\ alast = NoAudioCall
    /\ producer = Producing
    /\ fifo = NoFrames

\* The bounds the behaviours are followed within.
Bounded(hosts) == Len(hosts) <= MaxHosts

\* Any other call or step just completed.
Other(op) == [NoAudioCall EXCEPT !.op = op]

\* A set_device_index call just completed, with what the object held when it
\* was made: its flag, its host and the number of hosts created so far.
AudioCall(op, result, fail) ==
    [op |-> op, result |-> result, fail |-> fail, was_active |-> dev.active,
     old_audio |-> dev.audio, hosts |-> Len(pa)]

\* start() (also __enter__).
StartCall(fail) ==
    LET r == Start(dev, pa, fail)
    IN  /\ fail \in StartFailures(dev.kind)
        /\ Bounded(r.pa)
        /\ dev' = r.dev
        /\ pa' = r.pa
        /\ alast' = [Other("start") EXCEPT !.result = r.result, !.fail = fail]
        /\ producer' = Producing
        /\ UNCHANGED <<fifo, quotaVars, selVars, voiceVars, engineVars, procVars>>

\* stop() (also __exit__, and __del__ of an active object).
StopCall ==
    LET r == Stop(dev, pa)
    IN  /\ Bounded(r.pa)
        /\ dev' = r.dev
        /\ pa' = r.pa
        /\ alast' = Other("stop")
        /\ producer' = [halted |-> TRUE, late |-> 0]
        /\ UNCHANGED <<fifo, quotaVars, selVars, voiceVars, engineVars, procVars>>

\* set_device_index(device_index).
SetDeviceIndexCall(device_index, fail) ==
    LET r == SetDeviceIndex(dev, pa, device_index, fail)
    IN  /\ fail \in StartFailures(dev.kind)
        /\ Bounded(r.pa)
        /\ dev' = r.dev
        /\ pa' = r.pa
        /\ alast' = AudioCall("set_device_index", r.result, fail)
        /\ producer' = Producing
        /\ UNCHANGED <<fifo, quotaVars, selVars, voiceVars, engineVars, procVars>>

\* A caller sets or clears on_frame_callback.
SetCallback(on) ==
    /\ dev.kind = "capture"
    /\ dev.on_frame_callback # on
    /\ dev' = [dev EXCEPT !.on_frame_callback = on]
    /\ alast' = Other("set_callback")
    /\ UNCHANGED <<pa, producer, fifo, quotaVars, selVars, voiceVars, engineVars, procVars>>

\* The library calls _audio_callback for the running callback stream of
\* host h: the frame is put on the queue.
AudioCallback(h) ==
    /\ dev.kind = "capture"
    /\ h \in 1..Len(pa)
    /\ pa[h].stream = "running" /\ pa[h].callback
    /\ Len(dev.audio_queue) < MaxFrames
    /\ dev' = [dev EXCEPT !.audio_queue = Append(@, "frame")]
    /\ alast' = Other("_audio_callback")
    /\ producer' = IF producer.halted THEN [producer EXCEPT !.late = 1] ELSE producer
    /\ UNCHANGED <<pa, fifo, quotaVars, selVars, voiceVars, engineVars, procVars>>

\* read_frame().
ReadFrameCall(served) ==
    /\ dev.kind = "capture"
    /\ alast' = [Other("read_frame") EXCEPT !.result = ReadFrame(dev, pa, served)]
    /\ UNCHANGED <<dev, pa, producer, fifo, quotaVars, selVars, voiceVars, engineVars, procVars>>

\* read_frames_buffered(timeout): the oldest queued frame, None when the
\* queue stays empty.
ReadFramesBuffered ==
    /\ dev.kind = "capture"
    /\ dev' = [dev EXCEPT !.audio_queue = IF @ = <<>> THEN @ ELSE QueueGet(@).rest]
    /\ alast' = [Other("read_frames_buffered") EXCEPT
                    !.result = IF dev.audio_queue = <<>> THEN "none" ELSE "frame"]
    /\ UNCHANGED <<pa, producer, fifo, quotaVars, selVars, voiceVars, engineVars, procVars>>

\* play_audio(audio_data).
PlayAudioCall ==
    /\ dev.kind = "playback"
    /\ alast' = [Other("play_audio") EXCEPT !.result = PlayAudio(dev, pa)]
    /\ UNCHANGED <<dev, pa, producer, fifo, quotaVars, selVars, voiceVars, engineVars, procVars>>

\* The interpreter frees a PyAudio instance and stream the object no longer
\* refers to; freeing the stream closes it.
Collect(h) ==
    /\ h \in 1..Len(pa)
    /\ h # dev.audio /\ h # dev.stream
    /\ StreamOpen(pa[h])
    /\ pa' = [pa EXCEPT ![h].stream = "closed"]
    /\ alast' = Other("collect")
    /\ UNCHANGED <<dev, producer, fifo, quotaVars, selVars, voiceVars, engineVars, procVars>>

NextAudio ==
    \/ \E fail \in StartFailures("capture") : StartCall(fail)
    \/ StopCall
    \/ \E device_index \in 1..NumDevices, fail \in StartFailures("capture") :
          SetDeviceIndexCall(device_index, fail)
    \/ \E on \in BOOLEAN : SetCallback(on)
    \/ \E h \in 1..MaxHosts : AudioCallback(h)
    \/ \E served \in BOOLEAN : ReadFrameCall(served)
    \/ ReadFramesBuffered
    \/ PlayAudioCall
    \/ \E h \in 1..MaxHosts : Collect(h)

SpecAudio == InitAudio /\ [][NextAudio]_vars

\* ------------------------------------------------- the capture queue
\* The producer callbacks and the consumer reads of one AudioCapture, the
\* frames told apart: a frame is written as its position in the order of the
\* puts.

MaxPut == 3

InitQueue ==
    QuotaIdle /\ SelectionInit /\ AudioIdle /\ VoiceIdle /\ EngineIdle /\ ProcIdle

\* The library calls _audio_callback for the running callback stream of
\* host h: a new frame is put on the queue.
PutFrame(h) ==
    LET frame == Len(fifo.put) + 1
    IN  /\ h \in 1..Len(pa)
        /\ pa[h].stream = "running" /\ pa[h].callback
        /\ Len(fifo.put) < MaxPut
        /\ dev' = [dev EXCEPT !.audio_queue = Append(@, frame)]
        /\ fifo' = [fifo EXCEPT !.put = Append(@, frame)]
        /\ alast' = Other("_audio_callback")
        /\ producer' = IF producer.halted THEN [producer EXCEPT !.late = 1] ELSE producer
        /\ UNCHANGED <<pa, quotaVars, selVars, voiceVars, engineVars, procVars>>

\* read_frames_buffered(timeout): the frame queue.get returns, None when the
\* queue stays empty until the timeout.
GetFrame ==
    /\ IF dev.audio_queue = <<>>
       THEN /\ alast' = [Other("read_frames_buffered") EXCEPT !.result = "none"]
            /\ UNCHANGED <<dev, fifo>>
       ELSE LET r == QueueGet(dev.audio_queue)
            IN  /\ dev' = [dev EXCEPT !.audio_queue = r.rest]
                /\ fifo' = [fifo EXCEPT !.got = Append(@, r.frame)]
                /\ alast' = [Other("read_frames_buffered") EXCEPT !.result = "frame"]
    /\ UNCHANGED <<pa, producer, quotaVars, selVars, voiceVars, engineVars, procVars>>

NextQueue ==
    \/ \E on \in BOOLEAN : SetCallback(on)
    \/ \E fail \in StartFailures("capture") : StartCall(fail)
    \/ StopCall
    \/ \E h \in 1..MaxHosts : PutFrame(h)
    \/ GetFrame
    \/ \E h \in 1..MaxHosts : Collect(h)

SpecQueue == InitQueue /\ [][NextQueue]_vars

\* ------------------------------------------------- capture, kept going
\* One AudioCapture whose device keeps delivering audio and whose consumer
\* keeps reading: the library goes on calling _audio_callback for a running
\* callback stream, and read_frames_buffered is called again and again.

NextLive ==
    \/ \E on \in BOOLEAN : SetCallback(on)
    \/ \E fail \in StartFailures("capture") : StartCall(fail)
    \/ StopCall
    \/ \E h \in 1..MaxHosts : AudioCallback(h)
    \/ ReadFramesBuffered

SpecLive ==
    /\ InitQueue
    /\ [][NextLive]_vars
    /\ WF_vars(\E h \in 1..MaxHosts : AudioCallback(h))
    /\ WF_vars(ReadFramesBuffered)

\* ------------------------------------------------- the speak route
\* Speak requests served one after the other on the engine all requests
\* share (get_pyttsx3_engine), and calls of set_volume.

InitVoice ==
    /\ QuotaIdle /\ SelectionInit /\ AudioIdle /\ EngineIdle /\ ProcIdle
    /\ tts = NewEngine
    /\ vlast = NoSpeak

\* POST /speak.
Speak(textOk, voice, speed, fail) ==
    LET r == SpeakText(tts, textOk, voice, speed, fail = "none")
    IN  /\ tts' = r.tts
        /\ vlast' = [op |-> "speak", voice |-> voice, speed |-> speed,
                     status |-> r.status, spoken_voice |-> r.tts.voice,
                     matched |-> voice # "default" /\ FindVoice(voice) >= 0,
                     tmp |-> TmpFile(textOk, fail)]
        /\ UNCHANGED <<quotaVars, selVars, audioVars, engineVars, procVars>>

\* tts_engine.set_volume(volume).
SetVolumeCall(volume) ==
    /\ tts' = SetVolume(tts, volume)
    /\ vlast' = [NoSpeak EXCEPT !.op = "set_volume"]
    /\ UNCHANGED <<quotaVars, selVars, audioVars, engineVars, procVars>>

NextVoice ==
    \/ \E textOk \in BOOLEAN, voice \in RequestedVoices, speed \in RequestedSpeeds,
          fail \in SpeakFailures : Speak(textOk, voice, speed, fail)
    \/ \E volume \in RequestedVolumes : SetVolumeCall(volume)

SpecVoice == InitVoice /\ [][NextVoice]_vars

\* ------------------------------------------------- engine calls
\* The two engine singletons and the calls made on them.

InitEngine ==
    /\ QuotaIdle /\ SelectionInit /\ AudioIdle /\ VoiceIdle /\ EngineIdle /\ ProcIdle

restOfEngine == <<quotaVars, selVars, audioVars, voiceVars, procVars>>

\* The frames transcribe_stream is followed on.
MaxStreamFrames == 2
StreamFrames ==
    [is_bytes : BOOLEAN, accept : {"final", "raise"}, has_result : BOOLEAN,
     words : {<<>>, <<"hello">>}]
StreamInputs == UNION {[1..n -> StreamFrames] : n \in 0..MaxStreamFrames}

\* get_vosk_engine() / get_pyttsx3_engine(); initOk: the model or the
\* speech driver is there and loads.
GetEngineCall(e, initOk) ==
    /\ engines' = [engines EXCEPT ![e] = GetEngine(@, initOk)]
    /\ elast' = [NoEngineCall EXCEPT !.op = "get_engine", !.engine = e]
    /\ UNCHANGED restOfEngine

\* vosk_engine.transcribe_audio(audio_data).
TranscribeAudioCall(accept, words, has_result) ==
    LET r == TranscribeAudio(engines["vosk"] = "ready", accept,
                             [words |-> words, has_result |-> has_result])
    IN  /\ engines["vosk"] # "none"
        /\ elast' = [NoEngineCall EXCEPT !.op = "transcribe_audio", !.engine = "vosk",
                                         !.accept = accept, !.words = words,
                                         !.has_result = has_result, !.text = r.text,
                                         !.confidence = r.confidence,
                                         !.raised = r.raised]
        /\ UNCHANGED <<engines, restOfEngine>>

\* vosk_engine.transcribe_stream(frames), run to its end.
TranscribeStreamCall(frames) ==
    LET r == TranscribeStream(engines["vosk"] = "ready", frames)
    IN  /\ engines["vosk"] # "none"
        /\ elast' = [NoEngineCall EXCEPT !.op = "transcribe_stream", !.engine = "vosk",
                                         !.text = r.yields, !.raised = r.raised]
        /\ UNCHANGED <<engines, restOfEngine>>

\* tts_engine.speak(text) / speak_to_file(text, path).
EngineSpeakCall(sayOk) ==
    /\ engines["pyttsx3"] # "none"
    /\ elast' = [NoEngineCall EXCEPT !.op = "speak", !.engine = "pyttsx3",
                                     !.ok = EngineSpeak(engines["pyttsx3"] = "ready", sayOk)]
    /\ UNCHANGED <<engines, restOfEngine>>

\* engine.get_status().
GetStatusCall(e) ==
    /\ engines[e] # "none"
    /\ elast' = [NoEngineCall EXCEPT !.op = "get_status", !.engine = e,
                                     !.initialized = GetStatus(engines[e])]
    /\ UNCHANGED <<engines, restOfEngine>>

NextEngine ==
    \/ \E e \in EngineNames, initOk \in BOOLEAN : GetEngineCall(e, initOk)
    \/ \E accept \in Accepts, words \in WordSeqs, has_result \in BOOLEAN :
          TranscribeAudioCall(accept, words, has_result)
    \/ \E frames \in StreamInputs : TranscribeStreamCall(frames)
    \/ \E sayOk \in BOOLEAN : EngineSpeakCall(sayOk)
    \/ \E e \in EngineNames : GetStatusCall(e)

SpecEngine == InitEngine /\ [][NextEngine]_vars

\* ------------------------------------------------- processor calls
\* The functions of AudioProcessor applied to arguments drawn from the sets
\* above.

InitProc ==
    /\ QuotaIdle /\ SelectionInit /\ AudioIdle /\ VoiceIdle /\ EngineIdle
    /\ proc \in {[NoProc EXCEPT !.op = "arguments", !.audio_data = f, !.sample_rate = sr,
                                 !.chunk_duration_ms = d, !.gain = g] :
                    f \in Frames, sr \in SampleRates, d \in ChunkDurations, g \in Gains}

restOfProc == <<quotaVars, selVars, audioVars, voiceVars, engineVars>>

\* AudioProcessor.split_audio_chunks(audio_data, sample_rate, chunk_duration_ms).
SplitAudioChunksCall ==
    LET r == SplitAudioChunks(proc.audio_data, proc.sample_rate, proc.chunk_duration_ms)
    IN  /\ proc.op = "arguments"
        /\ proc' = [proc EXCEPT !.op = "split_audio_chunks", !.raised = r.raised,
                                !.chunks = r.chunks]
        /\ UNCHANGED restOfProc

\* AudioProcessor.concatenate_chunks on the chunks split_audio_chunks returned.
ConcatenateChunksCall ==
    /\ proc.op = "split_audio_chunks" /\ ~proc.raised
    /\ proc' = [proc EXCEPT !.op = "concatenate_chunks",
                            !.out = ConcatenateChunks(proc.chunks)]
    /\ UNCHANGED restOfProc

\* AudioProcessor.apply_gain(audio_data, gain_db).
ApplyGainCall ==
    /\ proc.op = "arguments"
    /\ proc' = [proc EXCEPT !.op = "apply_gain",
                            !.out = ApplyGain(proc.audio_data, proc.gain)]
    /\ UNCHANGED restOfProc

\* AudioProcessor.normalize_audio(audio_data, target_db).
NormalizeAudioCall ==
    /\ proc.op = "arguments"
    /\ proc' = [proc EXCEPT !.op = "normalize_audio",
                            !.out = NormalizeAudio(proc.audio_data, proc.gain)]
    /\ UNCHANGED restOfProc

NextProc ==
    \/ SplitAudioChunksCall
    \/ ConcatenateChunksCall
    \/ ApplyGainCall
    \/ NormalizeAudioCall

SpecProc == InitProc /\ [][NextProc]_vars

\* C11: get_best_stt_backend(require_online) returns (and records as the
\* current recognition backend) VOSK whenever require_online is false, whatever
\* the counters hold and without touching them; when require_online is true it
\* returns HUGGINGFACE if check_quota("huggingface") says the quota is available
\* and VOSK if it does not.
C11_SelectRecognition ==
    last.op = "get_best_stt_backend" =>
        /\ ~last.online => last.best = VOSK /\ ~last.reset
        /\ last.online => last.best = (IF last.ok THEN HUGGINGFACE ELSE VOSK)
        /\ current_stt = last.best

\* Both sides of C11 about an exhausted counter: online required and refused.
C11_Witness ==
    /\ last.op = "get_best_stt_backend"
    /\ last.online /\ ~last.ok /\ last.best = VOSK
    /\ last.pre.present /\ last.pre.daily_calls >= last.pre.daily_limit

\* C12: get_best_tts_backend returns PYTTSX3 in every reachable state, and
\* the current synthesis backend is never the cloud one.
C12_SelectSynthesis ==
    /\ current_tts = PYTTSX3
    /\ last.op = "get_best_tts_backend" => last.best = PYTTSX3 /\ last.best # AZURE

\* A synthesis selection made while the Hugging Face counter is exhausted
\* and another counter has been counted up.
C12_Witness ==
    /\ last.op = "get_best_tts_backend"
    /\ store[OLLAMA].present /\ store[OLLAMA].daily_calls > 0
    /\ HF.present /\ HF.is_quota_exceeded /\ HF.daily_calls >= HF.daily_limit

\* The handles the library has given out.
Handles == 1..Len(pa)

\* C13: the capture queue is bounded: with a capacity N below the number of
\* frames the behaviours are followed for, the queue never holds more than N
\* frames (the produce after the Nth blocks or drops the oldest frame).
C13_BoundedQueue == Len(dev.audio_queue) < MaxFrames

\* C14: stop() leaves the object not active with no device held through the
\* handles it refers to, and no handle is ever stopped, closed or terminated
\* more than once.
C14_StopIdempotent ==
    /\ \A h \in Handles :
          pa[h].stops # "more" /\ pa[h].closes # "more" /\ pa[h].terminates # "more"
    /\ alast.op = "stop" =>
          /\ ~dev.active
          /\ dev.audio # 0 => ~Held(pa[dev.audio])
          /\ dev.stream # 0 => ~Held(pa[dev.stream])

\* C15: once stop() has returned (and start() has not been called again) no
\* frame is put on the capture queue and read_frame returns None.
C15_StopHaltsProducer ==
    producer.halted =>
        /\ producer.late = 0
        /\ alast.op = "read_frame" => alast.result = "none"

C17_HandlesReleasedByStop ==
    /\ Cardinality({h \in Handles : StreamOpen(pa[h])}) <= 1
    /\ alast.op = "stop" => \A h \in Handles : ~Held(pa[h])

\* C18: set_device_index on an active object has released the old handle
\* when it returns and, the restart succeeding, leaves the object active; on
\* an object that is not active it changes the device index only: the object
\* stays not active and no handle is acquired.
C18_SetDeviceIndexPreservesState ==
    alast.op = "set_device_index" =>
        /\ dev.device_index # 0
        /\ alast.was_active =>
              /\ alast.old_audio # 0 => ~Held(pa[alast.old_audio])
              /\ alast.fail = "none" => dev.active
        /\ ~alast.was_active => ~dev.active /\ Len(pa) = alast.hosts

\* C19: a speak request whose voice is "default" or matches no enumerated
\* voice does not fail for that reason and is synthesized with the voice of
\* the settings, whatever voices earlier requests selected.
C19_DefaultVoiceFallback ==
    vlast.op = "speak" /\ ~vlast.matched /\ vlast.status = 200 =>
        vlast.spoken_voice = PYTTSX3_VOICE_INDEX

\* C20: the rate and the volume the engine holds are inside the documented
\* ranges: the rate between 0.5 and 2.0 times the base rate, the volume
\* between 0.0 and 1.0.
C20_RateVolumeClamped ==
    /\ tts.rate >= Rate(MIN_SPEED) /\ tts.rate <= Rate(MAX_SPEED)
    /\ tts.volume >= 0 /\ tts.volume <= MAX_VOLUME

\* C21: transcribe_audio on an engine that is not initialized, and whenever
\* the recognizer raises, returns the empty text with confidence 0, and no
\* exception leaves transcribe_audio or transcribe_stream.
C21_TranscribeAbsorbsFailures ==
    /\ elast.op \in {"transcribe_audio", "transcribe_stream"} => ~elast.raised
    /\ elast.op = "transcribe_audio"
          /\ (engines["vosk"] = "uninitialized" \/ elast.accept = "raise")
          => elast.text = <<>> /\ elast.confidence = 0

\* The recognizer of a ready engine raises inside transcribe_audio.
C21_Witness ==
    /\ elast.op = "transcribe_audio" /\ elast.accept = "raise"
    /\ engines["vosk"] = "ready" /\ elast.text = <<>> /\ ~elast.raised

\* C22: for a finalized result made of the words w1..wn (n > 0) on a ready
\* engine transcribe_audio returns the words in order separated by single
\* spaces with a confidence above 0; a partial result gives the empty text.
C22_FinalizedTextOnly ==
    elast.op = "transcribe_audio" /\ engines["vosk"] = "ready" =>
        /\ elast.accept = "final" /\ elast.words # <<>> =>
              /\ elast.text = SpaceJoin([i \in 1..Len(elast.words) |-> Str(elast.words[i])])
              /\ elast.confidence > 0
        /\ elast.accept = "partial" => elast.text = <<>>

\* C23: an engine once constructed keeps its state: uninitialized stays
\* uninitialized and ready stays ready through every call, and get_status
\* reports initialized exactly for a ready engine.
C23_NoSilentRetry ==
    /\ [][\A e \in EngineNames : engines[e] # "none" => engines'[e] = engines[e]]_vars
    /\ [](elast.op = "get_status" => elast.initialized = (engines[elast.engine] = "ready"))

\* get_vosk_engine() is called again on the engine that failed to
\* initialize.
C23_Witness ==
    /\ elast.op = "get_engine" /\ elast.engine = "vosk"
    /\ engines["vosk"] = "uninitialized" /\ engines["pyttsx3"] = "ready"

\* What a check_quota call just completed returned agrees with the counter
\* row as the call left it.
CheckAgrees(row) ==
    /\ last.ok = (row.daily_calls < row.daily_limit)
    /\ last.remaining = Max(0, row.daily_limit - row.daily_calls)
    /\ last.remaining >= 0
    /\ last.ok = (last.remaining > 0)

\* C27: whenever check_quota reads the counter of the service (the store
\* answers and the service has a row), available is
\* (daily_calls < daily_limit), remaining is max(0, daily_limit - daily_calls),
\* never negative also when daily_calls has overshot the limit, and available
\* holds exactly when remaining > 0.  When there is no counter to read (the
\* store raises, or the service has no row) the answer is (True, 999999).
C27_CheckConsistent ==
    last.op = "check_quota" =>
        IF last.dbOk /\ store[last.svc].present THEN CheckAgrees(store[last.svc])
        ELSE last.ok /\ last.remaining = UNTRACKED_REMAINING

\* A check of a counter that has overshot its limit.
C27_Witness ==
    /\ last.op = "check_quota" /\ last.dbOk /\ ~last.reset
    /\ store[last.svc].present
    /\ store[last.svc].daily_calls > store[last.svc].daily_limit
    /\ ~last.ok /\ last.remaining = 0

\* The step is a track_usage call on a service that has a counter.
TrackStep == last'.op = "track_usage" /\ store[last'.svc].present

\* The step adds units to the counter of the service and changes neither
\* its limit, nor its reset time, nor the counter of any other service.
TrackAdds ==
    LET s == last'.svc
    IN  /\ store'[s].daily_calls = store[s].daily_calls + last'.units
        /\ store'[s].daily_limit = store[s].daily_limit
        /\ store'[s].last_reset_date = store[s].last_reset_date
        /\ \A o \in ServiceNames \ {s} : store'[o] = store[o]

\* C28: every track_usage(s, units) the store commits on an existing counter
\* adds exactly units to its daily_calls (a second call adds units again) and
\* leaves its limit, its reset time and every other counter unchanged; when
\* the store raises, nothing is committed and no counter changes.
C28_TrackFrame ==
    [][TrackStep => IF last'.dbOk THEN TrackAdds ELSE store' = store]_vars

\* A second committed track of two units on a counter already counted up.
C28_Witness ==
    /\ last.op = "track_usage" /\ last.dbOk /\ last.units = 2
    /\ last.pre.present /\ last.pre.daily_calls > 0
    /\ store[last.svc].daily_calls = last.pre.daily_calls + 2


\* C24: concatenate_chunks(split_audio_chunks(frame, rate, d)) is the frame,
\* sample for sample and in order, for every frame (the empty one included)
\* and every positive duration d, those with rate * d / 1000 below one
\* sample included.
C24_SplitConcatenateRoundTrip ==
    /\ proc.op = "split_audio_chunks" => ~proc.raised
    /\ proc.op = "concatenate_chunks" => proc.out = proc.audio_data

\* The chunk lengths of a frame of n samples.
ChunkLengths(n, sample_rate, chunk_duration_ms) ==
    LET sl == Slices(0, n, ChunkSize(sample_rate, chunk_duration_ms))
    IN  [k \in 1..Len(sl) |-> sl[k].len]

\* C25: split_audio_chunks returns a list in which every chunk but possibly
\* the last has exactly sample_rate * chunk_duration_ms / 1000 samples, the
\* last one has at most that many, and no chunk is empty; 185,000 samples at
\* 16000 Hz in chunks of 5000 ms come out as 80,000, 80,000 and 25,000.
C25_ChunkSizes ==
    /\ ChunkLengths(185000, 16000, 5000) = <<80000, 80000, 25000>>
    /\ proc.op = "split_audio_chunks" =>
          /\ ~proc.raised
          /\ \A k \in 1..Len(proc.chunks) :
                /\ Len(proc.chunks[k]) > 0
                /\ k < Len(proc.chunks) =>
                      Len(proc.chunks[k]) * 1000 = proc.sample_rate * proc.chunk_duration_ms
                /\ Len(proc.chunks[k]) * 1000 <= proc.sample_rate * proc.chunk_duration_ms

\* C26: every sample normalize_audio and apply_gain return lies in
\* -32768..32767, and a sample whose scaled value is beyond that range comes
\* out as the bound of its own sign, never wrapped around.
C26_ClipNeverWraps ==
    proc.op \in {"apply_gain", "normalize_audio"} =>
        /\ Len(proc.out) = Len(proc.audio_data)
        /\ \A i \in 1..Len(proc.out) :
              /\ proc.out[i] \in INT16_MIN..INT16_MAX
              /\ proc.audio_data[i] * proc.gain > INT16_MAX * 100 => proc.out[i] = INT16_MAX
              /\ proc.audio_data[i] * proc.gain < INT16_MIN * 100 => proc.out[i] = INT16_MIN

\* normalize_audio has saturated one sample at each bound.
C26_Witness ==
    /\ proc.op = "normalize_audio"
    /\ \E i, j \in 1..Len(proc.out) :
          /\ proc.audio_data[i] * proc.gain > INT16_MAX * 100 /\ proc.out[i] = INT16_MAX
          /\ proc.audio_data[j] * proc.gain < INT16_MIN * 100 /\ proc.out[j] = INT16_MIN

\* The first n entries of a sequence.
Prefix(q, n) == SubSeq(q, 1, n)

\* C29: the frames successive read_frames_buffered calls have returned are a
\* prefix of the frames the callbacks put on the queue, in the order of the
\* puts, none twice, however callbacks and reads interleave; a read returns
\* the oldest frame not yet returned.
C29_OrderedFrames ==
    /\ Len(fifo.got) <= Len(fifo.put)
    /\ fifo.got = Prefix(fifo.put, Len(fifo.got))
    /\ fifo.put = fifo.got \o dev.audio_queue
    /\ \A i, j \in 1..Len(fifo.got) : i # j => fifo.got[i] # fifo.got[j]

\* A read has just returned a frame, the second at least, while a frame put
\* later is still on the queue.
C29_Witness ==
    /\ alast.op = "read_frames_buffered" /\ alast.result = "frame"
    /\ Len(fifo.got) >= 2
    /\ Len(fifo.put) = MaxPut
    /\ dev.audio_queue # <<>>

\* The object is not recording or playing: its flag is down, or it has no
\* stream, or the stream it has is not running.
NotActive(d, hosts) == ~d.active \/ d.stream = 0 \/ ~StreamUsable(d, hosts)

\* A step of one of the three calls.
FailClosedStep == alast'.op \in {"read_frame", "play_audio", "read_frames_buffered"}

\* C30: read_frame on a capture object that is not recording (never started,
\* start failed, or stopped) returns None, play_audio on a playback object
\* that is not playing returns False, read_frames_buffered returns None when
\* the queue holds no frame; none of the three raises, and none changes a
\* host or a stream.
C30_FailClosed ==
    /\ [](/\ alast.op = "read_frame" /\ NotActive(dev, pa) => alast.result = "none"
          /\ alast.op = "play_audio" /\ NotActive(dev, pa) => alast.result = "false"
          /\ alast.op = "read_frame" => alast.result \in {"none", "frame"}
          /\ alast.op = "play_audio" => alast.result \in {"false", "true"}
          /\ alast.op = "read_frames_buffered" => alast.result \in {"none", "frame"})
    /\ [][FailClosedStep =>
            /\ pa' = pa
            /\ alast'.op = "read_frames_buffered" /\ dev.audio_queue = <<>> =>
                  alast'.result = "none" /\ dev' = dev]_vars

\* read_frame has returned None on an object whose start() failed at
\* start_stream: the flag is up and the stream is closed.
C30_Witness ==
    /\ alast.op = "read_frame" /\ alast.result = "none"
    /\ dev.active /\ dev.stream # 0 /\ ~StreamUsable(dev, pa)

\* C31: a check_quota whose store call raises (the query or the commit of
\* the reset) returns (True, 999999) and leaves the counter as it was, so
\* get_best_ai_backend and get_best_stt_backend(require_online) choose the
\* cloud variant on that answer; the gate of HuggingFaceClient admits the
\* call in the same way.
C31_FailedCheckAllows ==
    /\ last.op \in {"check_quota", "get_best_ai_backend"} /\ ~last.dbOk =>
          /\ last.ok /\ last.remaining = UNTRACKED_REMAINING
          /\ store[last.svc] = last.pre
          /\ GetBestAiBackend(last.ok, last.remaining) = HUGGINGFACE
          /\ GetBestSttBackend(TRUE, last.ok) = HUGGINGFACE
          /\ last.op = "get_best_ai_backend" =>
                last.best = HUGGINGFACE /\ current_ai = HUGGINGFACE
    /\ LET gate == HFCheckQuota(store, HUGGINGFACE, now, FALSE)
       IN  gate.ok /\ gate.store = store

\* The store has failed under get_best_ai_backend while the stored counter
\* of the cloud service is at its limit.
C31_Witness ==
    /\ last.op = "get_best_ai_backend" /\ ~last.dbOk
    /\ last.pre.present /\ last.pre.daily_calls >= last.pre.daily_limit
    /\ last.best = HUGGINGFACE

\* C32: a service configured without a daily limit (vosk, ollama) is never
\* reported exhausted: whatever number of units has been tracked on it, with
\* or without a day rollover, check_quota returns available = True.
C32_UnlimitedNeverExhausted ==
    last.op = "check_quota" /\ last.svc \in UnlimitedServices => last.ok

\* C33: should_switch_backend(service_type) returns True exactly when the
\* backend selection chooses now differs from the backend recorded as
\* current for that service type before the call.
C33_ShouldSwitch ==
    last.op = "should_switch_backend" /\ last.service_type # "other" =>
        (last.switch <=> last.best # last.was_current)

\* A worker commits a track of one unit on the row it read.
TrackCommits(w) ==
    /\ workers[w].pc \in {"hf_write", "qm_write"}
    /\ workers'[w].pc # workers[w].pc
    /\ workers[w].read.present

\* C34: no tracked unit is lost: with track calls on one service running
\* concurrently and no day rollover, every track that commits raises the
\* stored daily_calls by its units, so that the counter after all of them is
\* its value before plus the sum of their units.
C34_NoLostUnit ==
    [][\A w \in Workers :
          TrackCommits(w) =>
              store'[HUGGINGFACE].daily_calls = store[HUGGINGFACE].daily_calls + 1]_vars

\* C35: a start() of the capture object that returns False leaves it not
\* started, at whichever point the library raised (start_stream after the
\* stream was opened included): is_recording is False, and neither the host
\* nor the stream the object refers to still holds the device.
C35_FailedStartNotStarted ==
    dev.kind = "capture" /\ alast.op = "start" /\ alast.result = "false" =>
        /\ ~dev.active
        /\ dev.audio # 0 => ~Held(pa[dev.audio])
        /\ dev.stream # 0 => ~Held(pa[dev.stream])

\* The capture object is recording: its flag is up and its stream runs.
Recording == dev.active /\ StreamUsable(dev, pa)

\* C36: after a start() that returned True, while the object stays
\* recording, the device keeps delivering and the consumer keeps reading,
\* read_frames_buffered eventually returns a frame, whether or not
\* on_frame_callback was set before start().
C36_FramesEventuallyAvailable ==
    (alast.op = "start" /\ alast.result = "true")
        ~> (~Recording \/ (alast.op = "read_frames_buffered" /\ alast.result = "frame"))

\* C37: every speak request has removed the temporary file it created when
\* it returns, on the success path and on every failure path (synthesis
\* reports failure, reading the file fails, encoding fails).
C37_TempFileRemoved == vlast.op = "speak" => vlast.tmp # "left"

\* The step lowers the stored daily_calls of the service s.
Lowered(s) == store'[s].daily_calls < store[s].daily_calls

\* The step is made on a later calendar date than the last reset of the
\* counter of s, by a call whose check_quota committed the reset of s.
RolloverReset(s) ==
    /\ DateOf(now) > DateOf(store[s].last_reset_date)
    /\ last'.op \in {"check_quota", "get_best_ai_backend", "chat"}
    /\ last'.svc = s /\ last'.reset

\* C38: daily_calls is never negative, and with units >= 1 the only steps
\* that lower it are day-rollover resets committed by check_quota: no track,
\* no selection and no failed request lowers a counter between rollovers.
C38_NeverLowered ==
    /\ [](\A s \in ServiceNames : store[s].daily_calls >= 0)
    /\ [][\A s \in ServiceNames : Lowered(s) => RolloverReset(s)]_vars

\* A chat request that failed has lowered the counter: its check_quota ran
\* on a new day and reset it.
C38_Witness ==
    /\ last.op = "chat" /\ last.status = 200 /\ ~last.success
    /\ last.reset /\ last.pre.daily_calls > 0
    /\ store[HUGGINGFACE].daily_calls = 0

\* C39: on every reachable store that holds the huggingface counter,
\* QuotaManager.check_quota("huggingface") reports available exactly when
\* HuggingFaceClient._check_quota admits the call, and the two leave the same
\* counter in the store (same daily_calls and last_reset_date), after a day
\* rollover too.
C39_GatesAgree ==
    LET qm == CheckQuota(store, HUGGINGFACE, now, TRUE)
        hf == HFCheckQuota(store, HUGGINGFACE, now, TRUE)
    IN  store[HUGGINGFACE].present =>
            /\ qm.ok <=> hf.ok
            /\ qm.store[HUGGINGFACE].daily_calls = hf.store[HUGGINGFACE].daily_calls
            /\ qm.store[HUGGINGFACE].last_reset_date =
                   hf.store[HUGGINGFACE].last_reset_date

====
